---- MODULE Spec2Model ----
(***************************************************************************)
(* Model of dotman's Dotfile (src/dotman/dotman.py): the state property   *)
(* and the operations add, remove, sync, enable and disable, acting on a  *)
(* small filesystem that holds the paths name, target and one other path. *)
(***************************************************************************)
EXTENDS Integers, Sequences, FiniteSets, TLC

\* ---------------------------------------------------------------- bounds
\* Ctimes of the files present initially range over 0..MaxInitTime.
MaxInitTime == 1
\* Number of calls made on the Dotfile in one behaviour.
MaxCalls == 2

\* ------------------------------------------------------------ filesystem
Paths == {"name", "target", "other"}
Dirs == {"nameDir", "targetDir", "root"}
Contents == {"a", "b"}

NoEntry == [kind |-> "none", data |-> "", ctime |-> 0, dest |-> ""]
File(c, t) == [kind |-> "file", data |-> c, ctime |-> t, dest |-> ""]
Link(p) == [kind |-> "link", data |-> "", ctime |-> 0, dest |-> p]

\* self.name.parent / self.target.parent; the other path lies in a directory
\* that always exists.
Parent(p) ==
    CASE p = "name" -> "nameDir"
      [] p = "target" -> "targetDir"
      [] OTHER -> "root"

RELATIVE_SYMLINKS == FALSE

\* pc: where a call taken step by step stands ("idle" between calls);
\* intruded: what another actor put at target during the current add().
VARIABLES fs, dirs, now, last, prev, pc, intruded
vars == <<fs, dirs, now, last, prev, pc, intruded>>

\* The filesystem a call sees: entries, directories and the current time.
World == [f |-> fs, d |-> dirs, now |-> now]

\* ------------------------------------------------- results and exceptions
\* r.w: the filesystem so far, r.exc: "ok" or the exception raised,
\* r.out: the lines echoed so far, r.acts: the mutations performed so far,
\* each written as the line that reports it in a dry run.
Ok(w) == [w |-> w, exc |-> "ok", out |-> <<>>, acts |-> <<>>]
Did(r, line) == [r EXCEPT !.acts = Append(@, line)]
Raise(r, e) == IF r.exc # "ok" THEN r ELSE [r EXCEPT !.exc = e]
Echo(r, line) == IF r.exc # "ok" THEN r ELSE [r EXCEPT !.out = Append(@, line)]

_move_echo(r, source, target) == Echo(r, <<"MOVE", source, target>>)
_copy_echo(r, source, target) == Echo(r, <<"COPY", source, target>>)
_link_echo(r, source, target) == Echo(r, <<"LINK", source, target>>)
_mkdir_echo(r, source) == Echo(r, <<"MKDIR", source>>)
_unlink_echo(r, source) == Echo(r, <<"UNLINK", source>>)

\* ------------------------------------------- pathlib / shutil primitives
is_symlink(w, p) == w.f[p].kind = "link"

RECURSIVE resolve(_, _)
resolve(w, p) == IF w.f[p].kind = "link" THEN resolve(w, w.f[p].dest) ELSE p

\* Path.exists() follows symlinks: a dangling symlink does not exist.
exists(w, p) == w.f[resolve(w, p)].kind = "file"
is_file(w, p) == w.f[resolve(w, p)].kind = "file"
is_dir(w, dir) == w.d[dir]

\* Path.samefile(): os.stat of both sides, FileNotFoundError if one is absent.
samefile(w, p, q) ==
    IF ~exists(w, p) \/ ~exists(w, q)
    THEN [exc |-> "FileNotFoundError", same |-> FALSE]
    ELSE [exc |-> "ok", same |-> resolve(w, p) = resolve(w, q)]

\* Mutation: a missing file reads as empty instead of raising.
read_bytes_empty_when_missing(w, p) ==
    [exc |-> "ok",
     data |-> IF exists(w, p) THEN w.f[resolve(w, p)].data ELSE ""]

\* Path.read_bytes()
read_bytes(w, p) ==
    IF ~exists(w, p)
    THEN [exc |-> "FileNotFoundError", data |-> ""]
    ELSE [exc |-> "ok", data |-> w.f[resolve(w, p)].data]

\* hashlib.md5(...).hexdigest(): distinct contents, distinct digests.
md5(bytes) == <<"md5", bytes>>

\* Path.stat().st_ctime
_ctime(w, p) == w.f[resolve(w, p)].ctime

mkdir(r, dir) ==
    IF r.exc # "ok" THEN r
    ELSE IF r.w.d[dir] THEN Raise(r, "FileExistsError")
    ELSE Did([r EXCEPT !.w.d[dir] = TRUE], <<"MKDIR", dir>>)

unlink(r, p) ==
    IF r.exc # "ok" THEN r
    ELSE IF r.w.f[p].kind = "none" THEN Raise(r, "FileNotFoundError")
    ELSE Did([r EXCEPT !.w.f[p] = NoEntry], <<"UNLINK", p>>)

\* Mutation: a rename that refuses to overwrite an existing destination.
replace_no_overwrite(r, src, dst) ==
    IF r.exc # "ok" THEN r
    ELSE IF r.w.f[src].kind = "none" \/ ~r.w.d[Parent(dst)]
         THEN Raise(r, "FileNotFoundError")
    ELSE IF r.w.f[dst].kind # "none" THEN Raise(r, "FileExistsError")
    ELSE LET e == r.w.f[src]
             moved == IF e.kind = "file" THEN File(e.data, r.w.now) ELSE e
         IN Did([r EXCEPT !.w.f = [@ EXCEPT ![dst] = moved, ![src] = NoEntry]],
                <<"MOVE", src, dst>>)

\* Path.replace(): os.replace renames the entry itself (a symlink is moved,
\* not followed) over whatever is at the destination.
replace(r, src, dst) ==
    IF r.exc # "ok" THEN r
    ELSE IF r.w.f[src].kind = "none" \/ ~r.w.d[Parent(dst)]
         THEN Raise(r, "FileNotFoundError")
    ELSE LET e == r.w.f[src]
             moved == IF e.kind = "file" THEN File(e.data, r.w.now) ELSE e
         IN Did([r EXCEPT !.w.f = [@ EXCEPT ![dst] = moved, ![src] = NoEntry]],
                <<"MOVE", src, dst>>)

symlink_to(r, p, dest) ==
    IF r.exc # "ok" THEN r
    ELSE IF r.w.f[p].kind # "none" THEN Raise(r, "FileExistsError")
    ELSE IF ~r.w.d[Parent(p)] THEN Raise(r, "FileNotFoundError")
    ELSE Did([r EXCEPT !.w.f[p] = Link(dest)], <<"LINK", p, dest>>)

\* shutil.copyfile(): follows symlinks on both sides.
copyfile(r, src, dst) ==
    IF r.exc # "ok" THEN r
    ELSE LET w == r.w
             rs == resolve(w, src)
             rd == resolve(w, dst)
         IN IF exists(w, src) /\ exists(w, dst) /\ rs = rd
            THEN Raise(r, "SameFileError")
            ELSE IF ~exists(w, src) \/ ~w.d[Parent(rd)]
            THEN Raise(r, "FileNotFoundError")
            ELSE Did([r EXCEPT !.w.f[rd] = File(w.f[rs].data, w.now)],
                     <<"COPY", src, dst>>)

\* ------------------------------------------------------- Dotfile helpers
\* Mutation: the directory is created whether or not this is a dry run.
ensure_always_mkdir(r, dir, debug) ==
    IF r.exc # "ok" THEN r
    ELSE IF ~is_dir(r.w, dir) THEN mkdir(r, dir) ELSE r

ensure(r, dir, debug) ==
    IF r.exc # "ok" THEN r
    ELSE IF ~is_dir(r.w, dir)
         THEN IF debug THEN _mkdir_echo(r, dir) ELSE mkdir(r, dir)
         ELSE r

_ensure_dirs(r, debug) ==
    ensure(ensure(r, Parent("name"), debug), Parent("target"), debug)

_prune_dirs(r, debug) ==
    IF debug THEN Echo(r, <<"PRUNE", "<TODO>">>) ELSE r

_unlink(r, debug) ==
    IF debug THEN _unlink_echo(r, "name") ELSE unlink(r, "name")

\* Mutation: the true identity is copied without testing that it exists.
_link_copy_always(r, debug) ==
    IF r.exc # "ok" THEN r
    ELSE LET w == r.w
             source_true_identity == resolve(w, "name")
             copied ==
                 IF debug
                 THEN _copy_echo(r, source_true_identity, "target")
                 ELSE copyfile(r, source_true_identity, "target")
             r1 == IF is_symlink(w, "name")
                   THEN IF debug THEN _unlink_echo(copied, "name")
                        ELSE unlink(copied, "name")
                   ELSE r
         IN IF debug THEN _link_echo(r1, "name", "target")
            ELSE symlink_to(_ensure_dirs(r1, debug), "name", "target")

_link(r, debug) ==
    IF r.exc # "ok" THEN r
    ELSE LET w == r.w
             source_true_identity == resolve(w, "name")
             copied ==
                 IF exists(w, source_true_identity)
                 THEN IF debug
                      THEN _copy_echo(r, source_true_identity, "target")
                      ELSE copyfile(r, source_true_identity, "target")
                 ELSE r
             r1 == IF is_symlink(w, "name")
                   THEN IF debug THEN _unlink_echo(copied, "name")
                        ELSE unlink(copied, "name")
                   ELSE r  \* RELATIVE_SYMLINKS is False: target stays absolute
         IN IF debug THEN _link_echo(r1, "name", "target")
            ELSE symlink_to(_ensure_dirs(r1, debug), "name", "target")

_copy(r, debug) ==
    IF r.exc # "ok" THEN r
    ELSE IF is_symlink(r.w, "name") THEN Raise(r, "IsSymlink")
    ELSE IF debug THEN _copy_echo(r, "name", "target")
    ELSE copyfile(_ensure_dirs(r, debug), "name", "target")

\* Mutation: the symlink's own path is compared, not what it resolves to.
_is_present_unresolved(w) == is_symlink(w, "name") /\ "name" = "target"

_is_present(w) == is_symlink(w, "name") /\ resolve(w, "name") = "target"

\* Mutation: equality decided by change time instead of by content.
_same_contents_by_ctime(w) ==
    LET n == read_bytes(w, "name")
        t == read_bytes(w, "target")
    IN IF n.exc # "ok" THEN [exc |-> n.exc, same |-> FALSE]
       ELSE IF t.exc # "ok" THEN [exc |-> t.exc, same |-> FALSE]
       ELSE [exc |-> "ok", same |-> _ctime(w, "name") = _ctime(w, "target")]

\* [exc, same]: exc is the error of the first read that fails.
_same_contents(w) ==
    LET n == read_bytes(w, "name")
        t == read_bytes(w, "target")
    IN IF n.exc # "ok" THEN [exc |-> n.exc, same |-> FALSE]
       ELSE IF t.exc # "ok" THEN [exc |-> t.exc, same |-> FALSE]
       ELSE [exc |-> "ok", same |-> md5(n.data) = md5(t.data)]

_source_is_newer(w) == _ctime(w, "name") > _ctime(w, "target")

\* The state property: [exc, code, msg]; code is "" when it raises.
Code(c, m) == [exc |-> "ok", code |-> c, msg |-> m]
Fails(e) == [exc |-> e, code |-> "", msg |-> ""]

\* Mutation: the missing check comes before the external check.
state_missing_first(w) ==
    IF ~exists(w, "name") THEN Code("missing", "")
    ELSE IF is_symlink(w, "target") THEN Code("external", "")
    ELSE IF is_symlink(w, "name")
         THEN LET sf == samefile(w, "name", "target")
              IN IF sf.exc # "ok" THEN Fails(sf.exc)
                 ELSE IF ~sf.same THEN Code("conflict", "not_same_file")
                 ELSE Code("link", "")
    ELSE LET sc == _same_contents(w)
         IN IF sc.exc # "ok" THEN Fails(sc.exc)
            ELSE IF ~sc.same
                 THEN IF _source_is_newer(w)
                      THEN Code("conflict", "home_newer")
                      ELSE Code("conflict", "repo_newer")
            ELSE Code("copy", "")

state(w) ==
    IF is_symlink(w, "target") THEN Code("external", "")
    ELSE IF ~exists(w, "name") THEN Code("missing", "")
    ELSE IF is_symlink(w, "name")
         THEN LET sf == samefile(w, "name", "target")
              IN IF sf.exc # "ok" THEN Fails(sf.exc)
                 ELSE IF ~sf.same THEN Code("conflict", "not_same_file")
                 ELSE Code("link", "")
    ELSE LET sc == _same_contents(w)
         IN IF sc.exc # "ok" THEN Fails(sc.exc)
            ELSE IF ~sc.same
                 THEN IF _source_is_newer(w)
                      THEN Code("conflict", "home_newer")
                      ELSE Code("conflict", "repo_newer")
            ELSE Code("copy", "")

\* ---------------------------------------------------- Dotfile operations
\* Mutation: the TargetExists check is left out.
add_no_target_check(r, copy, debug) ==
    IF copy THEN _copy(r, debug)
    ELSE IF _is_present(r.w) THEN Raise(r, "InRepository")
    ELSE LET r1 == _ensure_dirs(r, debug)
             r2 == IF ~is_symlink(r1.w, "name")
                   THEN IF debug THEN _move_echo(r1, "name", "target")
                        ELSE replace(r1, "name", "target")
                   ELSE r1
         IN _link(r2, debug)

add(r, copy, debug) ==
    IF copy THEN _copy(r, debug)
    ELSE IF _is_present(r.w) THEN Raise(r, "InRepository")
    ELSE IF exists(r.w, "target") THEN Raise(r, "TargetExists")
    ELSE LET r1 == _ensure_dirs(r, debug)
             r2 == IF ~is_symlink(r1.w, "name")
                   THEN IF debug THEN _move_echo(r1, "name", "target")
                        ELSE replace(r1, "name", "target")
                   ELSE r1
         IN _link(r2, debug)

\* Mutation: the symlink is removed but target is not moved back.
remove_no_move(r, debug) ==
    IF ~is_symlink(r.w, "name") THEN Raise(r, "NotASymlink")
    ELSE IF ~is_file(r.w, "target") THEN Raise(r, "TargetMissing")
    ELSE LET r1 == _unlink(r, debug)
         IN IF debug THEN _move_echo(r1, "target", "name") ELSE r1

\* Mutation: the TargetMissing check is left out.
remove_no_target_check(r, debug) ==
    IF ~is_symlink(r.w, "name") THEN Raise(r, "NotASymlink")
    ELSE LET r1 == _unlink(r, debug)
         IN IF debug THEN _move_echo(r1, "target", "name")
            ELSE replace(r1, "target", "name")

remove(r, debug) ==
    IF ~is_symlink(r.w, "name") THEN Raise(r, "NotASymlink")
    ELSE IF ~is_file(r.w, "target") THEN Raise(r, "TargetMissing")
    ELSE LET r1 == _unlink(r, debug)
         IN IF debug THEN _move_echo(r1, "target", "name")
            ELSE replace(r1, "target", "name")

\* Mutation: a conflicting name is not unlinked before linking.
sync_no_unlink(r, copy, debug) ==
    LET st == state(r.w)
    IN IF st.exc # "ok" THEN Raise(r, st.exc)
       ELSE IF st.code \notin {"missing", "conflict"} THEN Raise(r, "ValueError")
       ELSE IF copy = FALSE
            THEN _link(_ensure_dirs(r, debug), debug)
            ELSE Raise(r, "TypeError")

\* Mutation: the state is not checked to be missing or conflict.
sync_no_state_check(r, copy, debug) ==
    LET st == state(r.w)
    IN IF st.exc # "ok" THEN Raise(r, st.exc)
       ELSE IF copy = FALSE
            THEN LET r1 == IF st.code = "conflict" THEN _unlink(r, debug) ELSE r
                 IN _link(_ensure_dirs(r1, debug), debug)
            ELSE Raise(r, "TypeError")

\* In copy mode the source calls self._copy() without its debug argument,
\* which raises TypeError before _copy runs.
sync(r, copy, debug) ==
    LET st == state(r.w)
    IN IF st.exc # "ok" THEN Raise(r, st.exc)
       ELSE IF st.code \notin {"missing", "conflict"} THEN Raise(r, "ValueError")
       ELSE IF copy = FALSE
            THEN LET r1 == IF st.code = "conflict" THEN _unlink(r, debug) ELSE r
                 IN _link(_ensure_dirs(r1, debug), debug)
            ELSE Raise(r, "TypeError")

enable(r, copy, debug) ==
    IF copy THEN Raise(r, "NotImplementedError")
    ELSE IF exists(r.w, "name") THEN Raise(r, "Exists")
    ELSE IF ~exists(r.w, "target") THEN Raise(r, "TargetMissing")
    ELSE _link(_ensure_dirs(r, debug), debug)

\* Mutation: the checks pass but the symlink is not unlinked.
disable_no_unlink(r, debug) ==
    IF ~is_symlink(r.w, "name") THEN Raise(r, "NotASymlink")
    ELSE IF exists(r.w, "name") /\ ~exists(r.w, "target")
         THEN Raise(r, "TargetMissing")
    ELSE IF exists(r.w, "name") /\ ~samefile(r.w, "name", "target").same
         THEN Raise(r, "RuntimeError")
    ELSE _prune_dirs(r, debug)

\* Mutation: the same-file check is left out.
disable_no_samefile_check(r, debug) ==
    IF ~is_symlink(r.w, "name") THEN Raise(r, "NotASymlink")
    ELSE IF exists(r.w, "name") /\ ~exists(r.w, "target")
         THEN Raise(r, "TargetMissing")
    ELSE _prune_dirs(_unlink(r, debug), debug)

disable(r, debug) ==
    IF ~is_symlink(r.w, "name") THEN Raise(r, "NotASymlink")
    ELSE IF exists(r.w, "name") /\ ~exists(r.w, "target")
         THEN Raise(r, "TargetMissing")
    ELSE IF exists(r.w, "name") /\ ~samefile(r.w, "name", "target").same
         THEN Raise(r, "RuntimeError")
    ELSE _prune_dirs(_unlink(r, debug), debug)

\* ------------------------------------------- the operations step by step
\* add(), link mode: the two checks, then everything after them.
add_checks(r) ==
    IF _is_present(r.w) THEN Raise(r, "InRepository")
    ELSE IF exists(r.w, "target") THEN Raise(r, "TargetExists")
    ELSE r

add_rest(r, debug) ==
    LET r1 == _ensure_dirs(r, debug)
        r2 == IF ~is_symlink(r1.w, "name")
              THEN IF debug THEN _move_echo(r1, "name", "target")
                   ELSE replace(r1, "name", "target")
              ELSE r1
    IN _link(r2, debug)

\* Mutation: target is moved over name before anything is unlinked.
remove_moves_first(r, debug) ==
    IF ~is_symlink(r.w, "name") THEN Raise(r, "NotASymlink")
    ELSE IF ~is_file(r.w, "target") THEN Raise(r, "TargetMissing")
    ELSE IF debug THEN _move_echo(r, "target", "name")
    ELSE replace(r, "target", "name")

\* remove(): the checks and the unlink, then the move back.
remove_unlink(r, debug) ==
    IF ~is_symlink(r.w, "name") THEN Raise(r, "NotASymlink")
    ELSE IF ~is_file(r.w, "target") THEN Raise(r, "TargetMissing")
    ELSE _unlink(r, debug)

remove_move(r, debug) ==
    IF debug THEN _move_echo(r, "target", "name")
    ELSE replace(r, "target", "name")

\* ------------------------------------------------------------ the machine
\* A record of one call: what was called, how it ended, what it echoed and
\* the filesystem it started from.
CallRec(op, copy, debug, exc, code, msg, out, acts) ==
    [op |-> op, copy |-> copy, debug |-> debug, exc |-> exc, code |-> code,
     msg |-> msg, out |-> out, acts |-> acts,
     pre |-> [f |-> fs, d |-> dirs, now |-> now]]

NoCall == [op |-> "none", copy |-> FALSE, debug |-> FALSE, exc |-> "ok",
           code |-> "", msg |-> "", out |-> <<>>, acts |-> <<>>,
           pre |-> [f |-> [p \in Paths |-> NoEntry],
                    d |-> [x \in Dirs |-> TRUE], now |-> 0]]

InitFiles == {File(c, t) : c \in Contents, t \in 0..MaxInitTime}

\* Any filesystem of files and symlinks over the three paths in which no
\* entry lies in a missing directory and no symlink chain loops.
Init ==
    /\ fs \in [Paths -> {NoEntry} \cup InitFiles \cup {Link("target"), Link("other")}]
    /\ fs["target"] # Link("target")
    /\ fs["other"] \in {NoEntry} \cup {File(c, 0) : c \in Contents}
    /\ dirs \in [Dirs -> BOOLEAN]
    /\ dirs["root"]
    /\ \A p \in Paths : ~dirs[Parent(p)] => fs[p] = NoEntry
    /\ now = MaxInitTime + 1
    /\ last = NoCall
    /\ prev = NoCall
    /\ pc = "idle"
    /\ intruded = NoEntry

CanCall == now < MaxInitTime + 1 + MaxCalls

Call(op, copy, debug, r) ==
    /\ CanCall
    /\ fs' = r.w.f
    /\ dirs' = r.w.d
    /\ now' = now + 1
    /\ prev' = last
    /\ last' = CallRec(op, copy, debug, r.exc, "", "", r.out, r.acts)
    /\ UNCHANGED <<pc, intruded>>

State ==
    /\ CanCall
    /\ LET st == state(World)
       IN last' = CallRec("state", FALSE, FALSE, st.exc, st.code, st.msg, <<>>, <<>>)
    /\ prev' = last
    /\ now' = now + 1
    /\ UNCHANGED <<fs, dirs, pc, intruded>>

Add == \E copy \in BOOLEAN, debug \in BOOLEAN :
    Call("add", copy, debug, add(Ok(World), copy, debug))

Remove == \E debug \in BOOLEAN :
    Call("remove", FALSE, debug, remove(Ok(World), debug))

Sync == \E copy \in BOOLEAN, debug \in BOOLEAN :
    Call("sync", copy, debug, sync(Ok(World), copy, debug))

Enable == \E copy \in BOOLEAN, debug \in BOOLEAN :
    Call("enable", copy, debug, enable(Ok(World), copy, debug))

Disable == \E debug \in BOOLEAN :
    Call("disable", FALSE, debug, disable(Ok(World), debug))

Next == State \/ Add \/ Remove \/ Sync \/ Enable \/ Disable

Spec == Init /\ [][Next]_vars

\* The filesystem stays well formed: nothing lies in a missing directory.
TypeOK ==
    /\ \A p \in Paths : fs[p].kind \in {"none", "file", "link"}
    /\ \A p \in Paths : ~dirs[Parent(p)] => fs[p].kind = "none"

\* ----------------------------------------------------------------- claims
\* The filesystem the last call started from, and the one before it.
Pre == last.pre
Pre2 == prev.pre

\* prev and last are add() then remove(), link mode, not dry-run, started
\* with a regular file at name and nothing at target.
AddThenRemove ==
    /\ prev.op = "add" /\ ~prev.copy /\ ~prev.debug
    /\ last.op = "remove" /\ ~last.debug
    /\ Pre2.f["name"].kind = "file"
    /\ Pre2.f["target"].kind = "none"

\* C1: add() then remove() from a regular file with content C at name and
\* nothing at target both succeed and leave name a regular file with
\* content C and nothing at target.
C1_AddRemoveRoundTrip ==
    AddThenRemove =>
        /\ prev.exc = "ok"
        /\ last.exc = "ok"
        /\ fs["name"].kind = "file"
        /\ fs["name"].data = Pre2.f["name"].data
        /\ fs["target"].kind = "none"

C1_Witness ==
    /\ AddThenRemove
    /\ last.exc = "ok"
    /\ ~Pre2.d["targetDir"]
    /\ fs["name"].data = "b"

\* prev and last are enable() then disable(), not dry-run, started with
\* nothing at name and a regular file at target.
EnableThenDisable ==
    /\ prev.op = "enable" /\ ~prev.copy /\ ~prev.debug
    /\ last.op = "disable" /\ ~last.debug
    /\ Pre2.f["name"].kind = "none"
    /\ Pre2.f["target"].kind = "file"

\* C2: enable() then disable() from nothing at name and a regular file
\* with content C at target both succeed and leave nothing at name and
\* target a regular file with content C.
C2_EnableDisableRoundTrip ==
    EnableThenDisable =>
        /\ prev.exc = "ok"
        /\ last.exc = "ok"
        /\ fs["name"].kind = "none"
        /\ fs["target"].kind = "file"
        /\ fs["target"].data = Pre2.f["target"].data

C2_Witness ==
    /\ EnableThenDisable
    /\ last.exc = "ok"
    /\ ~Pre2.d["nameDir"]
    /\ Pre.f["name"] = Link("target")
    /\ fs["target"].data = "a"

\* C3: a call with debug=True leaves files, symlinks, contents and
\* directories as they were, whether it returns or fails.
C3_DryRunNeverMutates ==
    last.debug => (fs = Pre.f /\ dirs = Pre.d)

C3_Witness ==
    /\ last.op = "add" /\ last.debug /\ ~last.copy
    /\ last.exc = "ok"
    /\ Len(last.out) = 3
    /\ last.out[1] = <<"MKDIR", "targetDir">>
    /\ last.out[2] = <<"MOVE", "name", "target">>
    /\ last.out[3] = <<"LINK", "name", "target">>
    /\ ~dirs["targetDir"]
    /\ fs["name"].kind = "file"

\* C4: link-mode add() when target exists and name is not already a symlink
\* resolving to target fails with TargetExists and leaves target and name
\* unchanged.
C4_AddNeverOverwritesTarget ==
    (/\ last.op = "add" /\ ~last.copy
     /\ exists(Pre, "target")
     /\ ~_is_present(Pre))
    => (/\ last.exc = "TargetExists"
        /\ fs["target"] = Pre.f["target"]
        /\ fs["name"] = Pre.f["name"])

C4_Witness ==
    /\ last.op = "add" /\ ~last.copy /\ ~last.debug
    /\ Pre.f["target"].kind = "file"
    /\ Pre.f["name"].kind = "file"
    /\ Pre.f["name"].data # Pre.f["target"].data
    /\ last.exc = "TargetExists"

\* The last call is a state query on a regular file at name with nothing at
\* target.
StateOfUntracked ==
    /\ last.op = "state"
    /\ Pre.f["name"].kind = "file"
    /\ Pre.f["target"].kind = "none"

C6_MissingIffNothingAtName ==
    last.op = "state" =>
        ((last.exc = "ok" /\ last.code = "missing")
         <=> (~is_symlink(Pre, "target") /\ Pre.f["name"].kind = "none"))

\* C7: with target not a symlink and name a symlink resolving to an existing
\* file, state returns 'link' if name resolves to the same file as target
\* and 'conflict' otherwise, whether target is a regular file or absent.
C7_SymlinkLinkOrConflict ==
    (/\ last.op = "state"
     /\ ~is_symlink(Pre, "target")
     /\ is_symlink(Pre, "name")
     /\ exists(Pre, "name"))
    => (/\ last.exc = "ok"
        /\ last.code = IF resolve(Pre, "name") = resolve(Pre, "target")
                       THEN "link" ELSE "conflict")

\* The last call is a state query with regular files at name and target.
StateOfTwoFiles ==
    /\ last.op = "state"
    /\ Pre.f["name"].kind = "file"
    /\ Pre.f["target"].kind = "file"

\* C8: with regular files at name and target, state returns 'copy' iff the
\* contents are identical and 'conflict' otherwise, whatever the change
\* times are; the times only select the message of 'conflict': home is
\* named newer iff ctime(name) > ctime(target).
C8_CopyIffSameContents ==
    StateOfTwoFiles =>
        /\ last.exc = "ok"
        /\ last.code = IF Pre.f["name"].data = Pre.f["target"].data
                       THEN "copy" ELSE "conflict"
        /\ last.code = "copy" => last.msg = ""
        /\ last.code = "conflict" =>
              last.msg = IF Pre.f["name"].ctime > Pre.f["target"].ctime
                         THEN "home_newer" ELSE "repo_newer"

C8_Witness ==
    /\ StateOfTwoFiles
    /\ Pre.f["name"].data = Pre.f["target"].data
    /\ Pre.f["name"].ctime > Pre.f["target"].ctime
    /\ last.code = "copy"

\* C9: whenever target is a symlink, dangling or not, state returns
\* 'external' whatever is at name.
C9_ExternalTakesPrecedence ==
    (last.op = "state" /\ is_symlink(Pre, "target"))
    => (last.exc = "ok" /\ last.code = "external")

C9_Witness ==
    /\ last.op = "state"
    /\ is_symlink(Pre, "target")
    /\ ~exists(Pre, "target")
    /\ Pre.f["name"].kind = "none"
    /\ last.code = "external"

\* C10: enable() fails with Exists and leaves name unchanged whenever a
\* regular file or a symlink of any kind (a dangling one included) is at
\* name; otherwise, when target does not exist, it fails with TargetMissing.
C10_EnableNeverClobbers ==
    (last.op = "enable" /\ ~last.copy) =>
        /\ Pre.f["name"].kind # "none" =>
              (last.exc = "Exists" /\ fs["name"] = Pre.f["name"])
        /\ (Pre.f["name"].kind = "none" /\ ~exists(Pre, "target")) =>
              last.exc = "TargetMissing"

\* C11: disable() fails with NotASymlink unless name is a symlink; when name
\* resolves to an existing file it fails with TargetMissing if target is
\* absent and with RuntimeError if name and target are not the same file;
\* in every outcome whatever is at target is unchanged.
C11_DisableGuardsAndKeepsTarget ==
    last.op = "disable" =>
        /\ Pre.f["name"].kind # "link" => last.exc = "NotASymlink"
        /\ (/\ Pre.f["name"].kind = "link"
            /\ Pre.f[resolve(Pre, "name")].kind = "file"
            /\ Pre.f["target"].kind = "none")
           => last.exc = "TargetMissing"
        /\ (/\ Pre.f["name"].kind = "link"
            /\ Pre.f[resolve(Pre, "name")].kind = "file"
            /\ Pre.f["target"].kind # "none"
            /\ resolve(Pre, "name") # resolve(Pre, "target"))
           => last.exc = "RuntimeError"
        /\ fs["target"] = Pre.f["target"]
        /\ fs[resolve(Pre, "target")] = Pre.f[resolve(Pre, "target")]

C11_Witness ==
    /\ last.op = "disable" /\ ~last.debug
    /\ Pre.f["name"] = Link("other")
    /\ Pre.f["other"].kind = "file"
    /\ Pre.f["target"].kind = "file"
    /\ last.exc = "RuntimeError"
    /\ fs["name"] = Link("other")

\* The last call is a link-mode, non-dry-run sync() on a file whose state
\* was 'conflict'.
SyncOfConflict ==
    /\ last.op = "sync" /\ ~last.copy /\ ~last.debug
    /\ state(Pre).exc = "ok"
    /\ state(Pre).code = "conflict"

\* C12: link-mode, non-dry-run sync() on a 'conflict' file discards the home
\* entry: afterwards name is a symlink resolving to target, state returns
\* 'link', and target is unchanged.
C12_SyncConflictDiscardsHome ==
    SyncOfConflict =>
        /\ last.exc = "ok"
        /\ fs["name"] = Link("target")
        /\ resolve(World, "name") = "target"
        /\ state(World) = Code("link", "")
        /\ fs["target"] = Pre.f["target"]

C12_Witness ==
    /\ SyncOfConflict
    /\ Pre.f["name"] = Link("other")
    /\ Pre.f["other"].kind = "file"
    /\ Pre.f["other"].data # Pre.f["target"].data
    /\ fs["name"] = Link("target")

\* C13: sync(copy=True) on a 'missing' or 'conflict' file performs copy
\* creation: it ends as _copy does (IsSymlink if name is a symlink, else
\* parents ensured and bytes copied from name to target) and creates no
\* symlink at name.
C13_SyncCopyModeCopies ==
    (/\ last.op = "sync" /\ last.copy
     /\ state(Pre).exc = "ok"
     /\ state(Pre).code \in {"missing", "conflict"})
    => LET c == _copy(Ok(Pre), last.debug)
       IN /\ last.exc = c.exc
          /\ fs = c.w.f
          /\ dirs = c.w.d
          /\ fs["name"] = Pre.f["name"]

\* C14: sync() on a file whose state is 'link', 'copy' or 'external' fails
\* with ValueError in link and in copy mode and changes nothing.
C14_SyncRejectsOtherStates ==
    (/\ last.op = "sync"
     /\ state(Pre).exc = "ok"
     /\ state(Pre).code \in {"link", "copy", "external"})
    => (/\ last.exc = "ValueError"
        /\ fs = Pre.f
        /\ dirs = Pre.d)

C14_Witness ==
    /\ last.op = "sync" /\ ~last.copy /\ ~last.debug
    /\ state(Pre).code = "link"
    /\ last.exc = "ValueError"

\* C15: link-mode add() on a tracked file (name is a symlink to target and
\* target is not itself a symlink) fails with InRepository and changes
\* nothing.
C15_AddTrackedFails ==
    (/\ last.op = "add" /\ ~last.copy
     /\ Pre.f["name"] = Link("target")
     /\ Pre.f["target"].kind # "link")
    => (/\ last.exc = "InRepository"
        /\ fs = Pre.f
        /\ dirs = Pre.d)

C15_Witness ==
    /\ last.op = "add" /\ ~last.copy /\ ~last.debug
    /\ Pre.f["name"] = Link("target")
    /\ Pre.f["target"].kind = "file"
    /\ last.exc = "InRepository"

\* C16: remove() fails with NotASymlink whenever name is not a symlink, and
\* with TargetMissing whenever name is a symlink but target does not exist
\* as a regular file; in both cases the filesystem is unchanged.
C16_RemoveGuards ==
    last.op = "remove" =>
        /\ Pre.f["name"].kind # "link" =>
              (last.exc = "NotASymlink" /\ fs = Pre.f /\ dirs = Pre.d)
        /\ (/\ Pre.f["name"].kind = "link"
            /\ Pre.f[resolve(Pre, "target")].kind # "file")
           => (last.exc = "TargetMissing" /\ fs = Pre.f /\ dirs = Pre.d)

C16_Witness ==
    /\ last.op = "remove" /\ ~last.debug
    /\ Pre.f["name"] = Link("target")
    /\ Pre.f["target"].kind = "none"
    /\ last.exc = "TargetMissing"

\* The last call is a link-mode, non-dry-run add() with name a symlink
\* pointing elsewhere than target and nothing at target.
AddOfForeignSymlink ==
    /\ last.op = "add" /\ ~last.copy /\ ~last.debug
    /\ Pre.f["name"].kind = "link"
    /\ Pre.f["name"].dest # "target"
    /\ Pre.f["target"].kind = "none"

\* C17: link-mode, non-dry-run add() with name a symlink and nothing at
\* target: if name resolves to an existing file R, afterwards target is a
\* regular file with R's content, name is a symlink resolving to target and
\* R is unchanged; if name is dangling, no copy is made and the symlink at
\* name is replaced by a symlink to target.
C17_AddOfSymlinkCopiesTrueIdentity ==
    AddOfForeignSymlink =>
        LET R == resolve(Pre, "name")
        IN /\ last.exc = "ok"
           /\ fs["name"] = Link("target")
           /\ fs[R] = Pre.f[R]
           /\ Pre.f[R].kind = "file" =>
                 /\ fs["target"].kind = "file"
                 /\ fs["target"].data = Pre.f[R].data
                 /\ resolve(World, "name") = "target"
           /\ Pre.f[R].kind = "none" => fs["target"].kind = "none"

C17_Witness ==
    /\ AddOfForeignSymlink
    /\ Pre.f["other"].kind = "file"
    /\ ~Pre.d["targetDir"]
    /\ fs["target"].kind = "file"
    /\ fs["target"].data = fs["other"].data

C17_WitnessDangling ==
    /\ AddOfForeignSymlink
    /\ Pre.f["other"].kind = "none"
    /\ fs["name"] = Link("target")
    /\ fs["target"].kind = "none"

\* C20: after a successful non-dry-run disable(), ancestor directories of
\* name that became empty are pruned: a directory created by the preceding
\* enable() does not remain.
C20_DisablePrunesDirs ==
    (/\ prev.op = "enable" /\ ~prev.debug /\ prev.exc = "ok"
     /\ last.op = "disable" /\ ~last.debug /\ last.exc = "ok"
     /\ ~Pre2.d["nameDir"])
    => ~dirs["nameDir"]

\* ------------------------------------------ the machine, step by step
\* Non-dry-run, link-mode add() and remove() taken in steps, so that the
\* process can be killed inside remove() and another actor can write to
\* target inside add().
Running == "running"

Begin(op, r, at) ==
    /\ pc = "idle"
    /\ CanCall
    /\ fs' = r.w.f
    /\ dirs' = r.w.d
    /\ prev' = last
    /\ intruded' = NoEntry
    /\ IF r.exc = "ok"
       THEN /\ last' = CallRec(op, FALSE, FALSE, Running, "", "", r.out, r.acts)
            /\ pc' = at
            /\ now' = now
       ELSE /\ last' = CallRec(op, FALSE, FALSE, r.exc, "", "", r.out, r.acts)
            /\ pc' = "idle"
            /\ now' = now + 1

Finish(r) ==
    /\ fs' = r.w.f
    /\ dirs' = r.w.d
    /\ last' = [last EXCEPT !.exc = r.exc, !.acts = @ \o r.acts]
    /\ pc' = "idle"
    /\ now' = now + 1
    /\ UNCHANGED <<prev, intruded>>

RemoveBegin == Begin("remove", remove_unlink(Ok(World), FALSE), "remove_unlinked")

RemoveFinish ==
    /\ pc = "remove_unlinked"
    /\ Finish(remove_move(Ok(World), FALSE))

\* The process is killed between the unlink and the rename of remove().
Interrupt ==
    /\ pc = "remove_unlinked"
    /\ pc' = "killed"
    /\ last' = [last EXCEPT !.exc = "killed"]
    /\ UNCHANGED <<fs, dirs, now, prev, intruded>>

AddBegin == Begin("add", add_checks(Ok(World)), "add_checked")

\* Another actor creates a file at target after add()'s checks have passed.
OtherActor ==
    /\ pc = "add_checked"
    /\ intruded = NoEntry
    /\ \E c \in Contents :
          /\ fs' = [fs EXCEPT !["target"] = File(c, now)]
          /\ intruded' = File(c, now)
    /\ dirs' = [dirs EXCEPT !["targetDir"] = TRUE]
    /\ UNCHANGED <<now, last, prev, pc>>

AddFinish ==
    /\ pc = "add_checked"
    /\ Finish(add_rest(Ok(World), FALSE))

NextSteps ==
    \/ RemoveBegin \/ RemoveFinish \/ Interrupt
    \/ AddBegin \/ OtherActor \/ AddFinish

SpecSteps == Init /\ [][NextSteps]_vars

\* Left alone, the steps of a call amount to the whole call.
StepsAgree ==
    (pc = "idle" /\ intruded = NoEntry /\ last.op \in {"add", "remove"}) =>
        LET whole == IF last.op = "add" THEN add(Ok(Pre), FALSE, FALSE)
                     ELSE remove(Ok(Pre), FALSE)
        IN /\ last.exc = whole.exc
           /\ last.acts = whole.acts
           /\ fs = whole.w.f
           /\ dirs = whole.w.d

\* C18 (as claimed): a remove() interrupted after name has been unlinked
\* and before target is renamed leaves nothing at name and nothing at
\* target.
C18_InterruptedRemoveLosesBoth ==
    pc = "killed" => (fs["name"].kind = "none" /\ fs["target"].kind = "none")

\* C18 (amended): a remove() interrupted after name has been unlinked and
\* before target is renamed leaves nothing at name while target is still
\* in place, unchanged: the file is absent from the home location only.
C18_InterruptedRemoveKeepsTarget ==
    pc = "killed" =>
        /\ last.op = "remove"
        /\ fs["name"].kind = "none"
        /\ fs["target"] = Pre.f["target"]
        /\ fs["target"].kind # "none"
        /\ is_file(World, "target")
        /\ fs["other"] = Pre.f["other"]

C18_Witness ==
    /\ pc = "killed"
    /\ Pre.f["name"] = Link("target")
    /\ fs["name"].kind = "none"
    /\ fs["target"].kind = "file"

\* The last call is an add() of a regular file at name during which another
\* actor wrote to target after the checks.
RacedAdd ==
    /\ pc = "idle"
    /\ last.op = "add"
    /\ intruded # NoEntry
    /\ Pre.f["name"].kind = "file"

\* C19: when another actor creates content at target after add()'s
\* target-exists check has passed, add() still completes without
\* TargetExists and replaces that content with the file moved from name;
\* with no interleaved actor add() never replaces existing target content.
C19_CheckThenActRace ==
    /\ RacedAdd =>
          /\ ~exists(Pre, "target")
          /\ last.exc = "ok"
          /\ fs["target"].kind = "file"
          /\ fs["target"].data = Pre.f["name"].data
          /\ fs["name"] = Link("target")
    /\ (/\ pc = "idle" /\ last.op = "add" /\ intruded = NoEntry
        /\ exists(Pre, "target"))
       => (/\ last.exc \in {"TargetExists", "InRepository"}
           /\ fs["target"] = Pre.f["target"])

C19_Witness ==
    /\ RacedAdd
    /\ last.exc = "ok"
    /\ intruded.data # Pre.f["name"].data
    /\ fs["target"].data = Pre.f["name"].data

\* C21: remove() succeeds only when name is a symlink that resolves to the
\* same file as target; a symlink at name that points to another file is
\* never unlinked and target is never moved over it.
C21_RemoveOnlyOwnLink ==
    (last.op = "remove" /\ ~last.debug) =>
        /\ last.exc = "ok" =>
              (/\ Pre.f["name"].kind = "link"
               /\ resolve(Pre, "name") = resolve(Pre, "target"))
        /\ (/\ Pre.f["name"].kind = "link"
            /\ resolve(Pre, "name") # resolve(Pre, "target"))
           => (fs["name"] = Pre.f["name"] /\ fs["target"] = Pre.f["target"])

\* C22: after every successful non-dry-run link-mode add() or enable() the
\* file is tracked: target exists, name is a symlink resolving to it, and
\* state returns 'link', or 'external' when target is itself a symlink.
C22_SuccessMeansTracked ==
    (/\ last.op \in {"add", "enable"}
     /\ ~last.copy /\ ~last.debug
     /\ last.exc = "ok")
    => (/\ exists(World, "target")
        /\ fs["name"].kind = "link"
        /\ exists(World, "name")
        /\ resolve(World, "name") = resolve(World, "target")
        /\ state(World) = IF is_symlink(World, "target")
                          THEN Code("external", "") ELSE Code("link", ""))

\* C23: whenever a non-dry-run add(), remove(), enable(), disable() or
\* sync() fails, with whatever error, it has changed nothing in the
\* filesystem and has created no directory.
C23_FailureChangesNothing ==
    (/\ last.op \in {"add", "remove", "enable", "disable", "sync"}
     /\ ~last.debug
     /\ last.exc # "ok")
    => (fs = Pre.f /\ dirs = Pre.d /\ last.acts = <<>>)

\* The lines of a dry run that report a filesystem mutation.
Reported(out) ==
    SelectSeq(out, LAMBDA l : l[1] \in {"MKDIR", "MOVE", "COPY", "UNLINK", "LINK"})

\* prev is a dry run and last the same call made for real; the dry run
\* changed nothing, so both started from the same filesystem.
DryThenReal ==
    /\ prev.op \in {"add", "remove", "enable", "disable", "sync"}
    /\ prev.op = "sync" => ~prev.copy
    /\ prev.debug
    /\ last.op = prev.op /\ last.copy = prev.copy /\ ~last.debug
    /\ Pre.f = Pre2.f /\ Pre.d = Pre2.d

\* C24: for add, remove, enable, disable and link-mode sync, the sequence
\* of MKDIR/MOVE/COPY/UNLINK/LINK lines reported with debug=True equals the
\* sequence of mutations the same call performs with debug=False from the
\* same filesystem.
C24_DryRunFaithful ==
    DryThenReal => Reported(prev.out) = last.acts
====
